---------------------------- MODULE Spec2Model ----------------------------
(***************************************************************************)
(* State-machine model of the bingo session coordinator of server.js:      *)
(* the three in-memory registries (rooms, users, the socket.io room        *)
(* membership), the pending win-check timers and the socket handlers       *)
(* admin:login, room:create, room:join, player:bingoCard, game:drawNumber, *)
(* room:close and disconnect, plus the setTimeout callback of a draw.      *)
(*                                                                         *)
(* Representation of JavaScript values:                                    *)
(*   socket ids        1..MaxSockets, 0 for null                           *)
(*   room codes        strings of Codes, "" for null / undefined           *)
(*   player ids        strings, "" for undefined                           *)
(*   strings (names)   sequences of one-character strings                  *)
(*   card              sequence of rows, a row a sequence of cells,        *)
(*                     a cell a number, Blank (0) for null; NoCard for a   *)
(*                     null card                                           *)
(*   a room object     a record of roomObjs, addressed by its index: the   *)
(*                     registry `rooms` maps a code to such an index and a *)
(*                     timer closure holds one, as the JS references do    *)
(***************************************************************************)
EXTENDS Integers, Sequences, FiniteSets, TLC

\* ------------------------------------------------------------------ bounds
MaxSockets == 3      \* connections ever opened
MaxRooms == 2        \* room objects ever created
MaxPlayers == 2      \* player ids ever minted by room:join
PoolSize == 2        \* size of the number pool (90 in the source, scaled)
MaxCells == 6        \* longest row probed by the row-rule specification
GameRooms == 1       \* rooms created in the game environment
MaxCardRows == 2     \* rows of the longest card submitted
AdminRooms == 2      \* rooms created in the room-creation environment
MaxLoaded == 3       \* records of the history file loaded at startup
MaxTime == 4         \* latest closedAt of the history probed

\* ------------------------------------------------------- program constants
RowWidth == 5
MAX_HISTORY_SIZE == 2
RevealLead == 500

\* ------------------------------------------------------------- value sets
Sockets == 1..MaxSockets
NoSocket == 0
Codes == {"AB12CD", "ZZ99ZZ"}
Nums == 1..PoolSize
Blank == 0
NoCard == << <<0 - 1>> >>

\* The ids room:join mints, in minting order, and an id only a client sends.
MintedIds == <<"p1", "p2", "p3", "p4", "p5", "p6">>
ForeignId == "px"
PlayerIds == {MintedIds[i] : i \in 1..MaxPlayers} \cup {ForeignId}

\* adminCredentials.username
AdminName == <<"a", "d", "m", "i", "n">>

\* ------------------------------------------------------- string functions
\* String.prototype.toLowerCase on the model's alphabet.
LowerChar(c) ==
  CASE c = "A" -> "a"
    [] c = "B" -> "b"
    [] OTHER -> c

toLowerCase(s) == [i \in 1..Len(s) |-> LowerChar(s[i])]

RECURSIVE TrimLeft(_)
TrimLeft(s) ==
  IF Len(s) > 0 /\ Head(s) = " " THEN TrimLeft(Tail(s)) ELSE s

RECURSIVE TrimRight(_)
TrimRight(s) ==
  IF Len(s) > 0 /\ s[Len(s)] = " " THEN TrimRight(SubSeq(s, 1, Len(s) - 1)) ELSE s

\* String.prototype.trim
trim(s) == TrimRight(TrimLeft(s))


\* ---------------------------------------------------------- win detection
\* A row test without the width test.
checkRowCompleteAnyWidth(row, drawnNumbers) ==
  IF Len(row) = 0 THEN <<>>
  ELSE LET rowNumbers == SelectSeq(row, LAMBDA num : num # Blank)
       IN IF \A i \in 1..Len(rowNumbers) : rowNumbers[i] \in drawnNumbers
          THEN rowNumbers ELSE <<>>

\* checkRowComplete(row, drawnNumbers): the row's non-null numbers when there
\* are exactly RowWidth of them and all are drawn, else <<>> (null).
checkRowComplete(row, drawnNumbers) ==
  IF Len(row) = 0 THEN <<>>
  ELSE LET rowNumbers == SelectSeq(row, LAMBDA num : num # Blank)
           allMarked == \A i \in 1..Len(rowNumbers) : rowNumbers[i] \in drawnNumbers
       IN IF allMarked /\ Len(rowNumbers) = RowWidth THEN rowNumbers ELSE <<>>

\* The key `${playerId}_row_${rowIndex}` of room.completedRows; the string is
\* injective in the pair, rowIndex being a number.
RowKey(playerId, rowIndex) == <<playerId, rowIndex>>

\* The inner forEach of checkPlayersForCompletedRows over one card, from row
\* i on: acc carries room.completedRows (done) and the local completedRows
\* array (found).
\* A test that finds no row notified.
AlreadyNotifiedAlways(done, rowKey) == TRUE

AlreadyNotifiedNever(done, rowKey) == FALSE

\* The test "room.completedRows.has(rowKey)".
AlreadyNotified(done, rowKey) == rowKey \in done

RECURSIVE ScanCard(_, _, _, _)
ScanCard(playerData, drawnNumbers, i, acc) ==
  IF i > Len(playerData.bingoCard) THEN acc
  ELSE LET completedNumbers == checkRowComplete(playerData.bingoCard[i], drawnNumbers)
           rowKey == RowKey(playerData.id, i - 1)
       IN IF completedNumbers # <<>> /\ ~AlreadyNotified(acc.done, rowKey)
          THEN ScanCard(playerData, drawnNumbers, i + 1,
                 [done |-> acc.done \cup {rowKey},
                  found |-> Append(acc.found,
                     [playerId |-> playerData.id,
                      playerName |-> playerData.username,
                      rowNumber |-> i,
                      numbers |-> completedNumbers])])
          ELSE ScanCard(playerData, drawnNumbers, i + 1, acc)

\* The outer forEach, over room.playerData in insertion order, from entry k on.
RECURSIVE ScanPlayers(_, _, _, _)
ScanPlayers(playerData, drawnNumbers, k, acc) ==
  IF k > Len(playerData) THEN acc
  ELSE IF playerData[k].bingoCard = NoCard \/ Len(playerData[k].bingoCard) = 0
       THEN ScanPlayers(playerData, drawnNumbers, k + 1, acc)
       ELSE ScanPlayers(playerData, drawnNumbers, k + 1,
              ScanCard(playerData[k], drawnNumbers, 1, acc))

\* checkPlayersForCompletedRows(room): [done: the new room.completedRows,
\* found: the completions returned].
checkPlayersForCompletedRows(room) ==
  ScanPlayers(room.playerData, room.drawnNumbers, 1,
              [done |-> room.completedRows, found |-> <<>>])

\* ------------------------------------------------------------------ state
VARIABLES
  conn,        \* socket id -> "open" | "closed": the transport connection
  users,       \* the users Map: socket id -> <<user object>>, <<>> if absent
  ioRooms,     \* socket id -> the socket.io rooms it has joined
  rooms,       \* the rooms Map: code -> index of the room object, 0 if absent
  roomObjs,    \* the room objects ever created, in creation order
  timers,      \* pending win-check callbacks, in firing order
  roomHistory, \* the archived summaries
  clock,       \* the time new Date() returns
  minted,      \* number of player ids minted so far
  emitted,     \* the events sent by the last step, in order
  last,        \* the last request: [op, sock, err, room]
  rowEvents,   \* history: per room object, the game:rowCompleted events ever sent
  race         \* history: per room object, who completed a row first

vars == <<conn, users, ioRooms, rooms, roomObjs, timers, roomHistory, clock,
          minted, emitted, last, rowEvents, race>>

\* ---------------------------------------------------------------- helpers
HasUser(s) == users[s] # <<>>

\* users.get(s), for a socket that has a user object.
User(s) == users[s][1]

\* rooms.get(code): 0 when the code names no live room ("" included).
RoomAt(code) == IF code \in Codes THEN rooms[code] ELSE 0

\* Map.get / Map.has on room.playerData, a sequence in insertion order.
PlayerIndex(playerData, pid) ==
  IF \E k \in 1..Len(playerData) : playerData[k].id = pid
  THEN CHOOSE k \in 1..Len(playerData) : playerData[k].id = pid
  ELSE 0

HasPlayer(playerData, pid) == PlayerIndex(playerData, pid) # 0

\* io.sockets.sockets.get(id): a socket object only for a connected socket.
SocketExists(id) == id \in Sockets /\ conn[id] = "open"

ToSocket(s) == [kind |-> "socket", sock |-> s, room |-> ""]
ToRoom(code) == [kind |-> "room", sock |-> NoSocket, room |-> code]

Event(type, to, payload) == [type |-> type, to |-> to, payload |-> payload]

ErrorTo(s, err) == <<Event("error", ToSocket(s), [message |-> err])>>

\* sendPlayersListToAdmin(room): the roster, to the admin socket if it exists.
sendPlayersListToAdmin(room) ==
  IF SocketExists(room.adminSocketId)
  THEN <<Event("room:playersList", ToSocket(room.adminSocketId),
           [players |-> [k \in 1..Len(room.playerData) |->
               [playerId |-> room.playerData[k].id,
                name |-> room.playerData[k].username,
                bingoCard |-> room.playerData[k].bingoCard]]])>>
  ELSE <<>>

\* A user object replaced in or deleted from `users` stays referenced by the
\* timer closures that captured it: they keep its roomId as it is now.
Detach(s) ==
  [i \in 1..Len(timers) |->
     IF timers[i].sock = s /\ timers[i].live
     THEN [timers[i] EXCEPT !.live = FALSE, !.roomId = User(s).roomId]
     ELSE timers[i]]

Done(op, s, err, r) == [op |-> op, sock |-> s, err |-> err, room |-> r]

\* A handler's early return: the error event and nothing else.
Reject(op, s, err) ==
  /\ emitted' = ErrorTo(s, err)
  /\ last' = Done(op, s, err, 0)
  /\ UNCHANGED <<conn, users, ioRooms, rooms, roomObjs, timers, roomHistory,
                 clock, minted, rowEvents, race>>

\* The rule of the specification for a complete row: exactly RowWidth
\* non-blank cells, each of them drawn.
RowRule(row, drawn) ==
  /\ Cardinality({j \in 1..Len(row) : row[j] # Blank}) = RowWidth
  /\ \A j \in 1..Len(row) : row[j] # Blank => row[j] \in drawn

\* The players of a room whose submitted card has a complete row.
CompleteNow(room) ==
  {room.playerData[k].id : k \in
     {j \in 1..Len(room.playerData) :
        /\ room.playerData[j].bingoCard # NoCard
        /\ \E i \in 1..Len(room.playerData[j].bingoCard) :
             RowRule(room.playerData[j].bingoCard[i], room.drawnNumbers)}}

\* The history of completions of a room object, kept until the room is over
\* (no draw is accepted after that). Its phase is "none" while no player has
\* had a complete row; "spoiled" once a submitted card had a complete row
\* before any draw completed one; "first" after the first draw that completed
\* a row, `who` being the players it completed; "raced" once a draw was
\* accepted or a card submitted after that draw, `who` being the players that
\* have had a complete row so far and `later` those whose first complete row
\* came at one of these later draws.
NoRace == [phase |-> "none", who |-> {}, later |-> {}]

RaceAfterSubmit(h, room, after) ==
  IF room.gameOver \/ h.phase = "spoiled" THEN h
  ELSE IF h.phase = "none"
  THEN IF CompleteNow(after) = {} THEN h
       ELSE [phase |-> "spoiled", who |-> {}, later |-> {}]
  ELSE [phase |-> "raced", who |-> h.who \cup CompleteNow(after),
        later |-> h.later]

RaceAfterDraw(h, after) ==
  IF h.phase = "spoiled" THEN h
  ELSE IF h.phase = "none"
  THEN IF CompleteNow(after) = {} THEN h
       ELSE [phase |-> "first", who |-> CompleteNow(after), later |-> {}]
  ELSE [phase |-> "raced", who |-> h.who \cup CompleteNow(after),
        later |-> h.later \cup (CompleteNow(after) \ h.who)]

Init ==
  /\ race = <<>>
  /\ conn = [s \in Sockets |-> "open"]
  /\ users = [s \in Sockets |-> <<>>]
  /\ ioRooms = [s \in Sockets |-> {}]
  /\ rooms = [c \in Codes |-> 0]
  /\ roomObjs = <<>>
  /\ timers = <<>>
  /\ roomHistory = <<>>
  /\ clock = 0
  /\ minted = 0
  /\ emitted = <<>>
  /\ last = Done("init", NoSocket, "", 0)
  /\ rowEvents = <<>>

\* ------------------------------------------------------------ admin:login
\* socket.on('admin:login'): ok says whether the credentials match.
AdminLogin(s, ok) ==
  /\ conn[s] = "open"
  /\ IF ok
     THEN /\ users' = [users EXCEPT ![s] =
                 <<[username |-> AdminName, isAdmin |-> TRUE, roomId |-> "",
                    playerId |-> ""]>>]
          /\ timers' = IF HasUser(s) THEN Detach(s) ELSE timers
          /\ emitted' = <<Event("admin:loginSuccess", ToSocket(s),
                            [isAdmin |-> TRUE, username |-> AdminName])>>
          /\ last' = Done("login", s, "", 0)
     ELSE /\ emitted' = <<Event("admin:loginError", ToSocket(s),
                            [message |-> "Invalid credentials"])>>
          /\ last' = Done("login", s, "AuthError", 0)
          /\ UNCHANGED <<users, timers>>
  /\ UNCHANGED <<conn, ioRooms, rooms, roomObjs, roomHistory, clock, minted,
                 rowEvents, race>>

\* ------------------------------------------------------------ room:create
\* The room object of the "Create new room" branch.
NewRoom(s, roomCode) ==
  [roomId |-> roomCode, adminId |-> s, adminSocketId |-> s, players |-> {s},
   drawnNumbers |-> {}, gameStarted |-> FALSE, gameOver |-> FALSE,
   winner |-> <<>>, winnerInfo |-> <<>>, playerData |-> <<>>,
   completedRows |-> {}]

\* if (!room.adminSocketId), were every slot taken as empty.
SlotAlwaysEmpty(room) == TRUE

\* if (!room.adminSocketId): the admin of the room is marked as disconnected.
SlotEmpty(room) == room.adminSocketId = NoSocket

\* socket.on('room:create'): existingRoomId is data.roomId ("" if absent);
\* roomCode is the code generateRoomCode() ends on, one no live room has.
CreateRoom(s, existingRoomId, roomCode) ==
  /\ conn[s] = "open"
  /\ IF ~HasUser(s) \/ ~User(s).isAdmin
     THEN roomCode = "" /\ Reject("create", s, "NotAuthorized")
     ELSE IF RoomAt(existingRoomId) # 0
             /\ SlotEmpty(roomObjs[RoomAt(existingRoomId)])
     THEN LET r == RoomAt(existingRoomId)
              room == [roomObjs[r] EXCEPT !.adminSocketId = s,
                                          !.players = @ \cup {s}]
          IN /\ roomCode = ""
             /\ roomObjs' = [roomObjs EXCEPT ![r] = room]
             /\ users' = [users EXCEPT ![s] =
                            <<[User(s) EXCEPT !.roomId = existingRoomId]>>]
             /\ ioRooms' = [ioRooms EXCEPT ![s] = @ \cup {existingRoomId}]
             /\ emitted' =
                  <<Event("room:created", ToSocket(s),
                      [roomId |-> existingRoomId,
                       playerCount |-> Cardinality(room.players),
                       reconnected |-> TRUE,
                       drawnNumbers |-> room.drawnNumbers])>>
                  \o sendPlayersListToAdmin(room)
             /\ last' = Done("create", s, "", r)
             /\ UNCHANGED <<conn, rooms, timers, roomHistory, clock, minted,
                            rowEvents, race>>
     ELSE /\ roomCode \in Codes
          /\ rooms[roomCode] = 0
          /\ Len(roomObjs) < MaxRooms
          /\ LET r == Len(roomObjs) + 1
                 room == NewRoom(s, roomCode)
             IN /\ roomObjs' = Append(roomObjs, room)
                /\ rowEvents' = Append(rowEvents, <<>>)
                /\ race' = Append(race, NoRace)
                /\ rooms' = [rooms EXCEPT ![roomCode] = r]
                /\ users' = [users EXCEPT ![s] =
                               <<[User(s) EXCEPT !.roomId = roomCode]>>]
                /\ ioRooms' = [ioRooms EXCEPT ![s] = @ \cup {roomCode}]
                /\ emitted' =
                     <<Event("room:created", ToSocket(s),
                         [roomId |-> roomCode, playerCount |-> 1,
                          reconnected |-> FALSE])>>
                     \o sendPlayersListToAdmin(room)
                /\ last' = Done("create", s, "", r)
                /\ UNCHANGED <<conn, timers, roomHistory, clock, minted>>

\* -------------------------------------------------------------- room:join
\* The duplicate-name test of room:join: the lower-cased names of the
\* profiles other than playerSessionId's.
ExistingNames(playerData, playerSessionId) ==
  {toLowerCase(playerData[k].username) :
     k \in {j \in 1..Len(playerData) : playerData[j].id # playerSessionId}}

\* The duplicate-name test, were names compared as they are written.
NameTakenAsWritten(playerData, playerSessionId, trimmedName) ==
  trimmedName \in {playerData[k].username :
     k \in {j \in 1..Len(playerData) : playerData[j].id # playerSessionId}}

NameTaken(playerData, playerSessionId, trimmedName) ==
  toLowerCase(trimmedName) \in ExistingNames(playerData, playerSessionId)

\* "Restore or create player data", were a profile created for every join.
RestoreOrCreateAnew(playerData, actualPlayerId, trimmedName, s) ==
  Append(playerData,
    [id |-> actualPlayerId, username |-> trimmedName,
     bingoCard |-> NoCard, socketId |-> s])

\* "Restore or create player data": the profile of actualPlayerId refreshed
\* with the name and the socket, or a new profile appended.
RestoreOrCreate(playerData, actualPlayerId, trimmedName, s) ==
  LET k == PlayerIndex(playerData, actualPlayerId)
  IN IF k # 0
     THEN [playerData EXCEPT ![k].username = trimmedName, ![k].socketId = s]
     ELSE Append(playerData,
            [id |-> actualPlayerId, username |-> trimmedName,
             bingoCard |-> NoCard, socketId |-> s])

\* socket.on('room:join'); playerSessionId is "" when absent.
JoinRoom(s, roomId, playerName, playerSessionId) ==
  /\ conn[s] = "open"
  /\ IF RoomAt(roomId) = 0
     THEN Reject("join", s, "RoomNotFound")
     ELSE IF Len(playerName) = 0 \/ Len(trim(playerName)) = 0
     THEN Reject("join", s, "ValidationError")
     ELSE LET r == RoomAt(roomId)
              room == roomObjs[r]
              trimmedName == trim(playerName)
              reuse == playerSessionId # ""
                       /\ HasPlayer(room.playerData, playerSessionId)
          IN IF NameTaken(room.playerData, playerSessionId, trimmedName)
             THEN Reject("join", s, "NameTaken")
             ELSE /\ reuse \/ minted < MaxPlayers
                  /\ LET actualPlayerId == IF reuse THEN playerSessionId
                                           ELSE MintedIds[minted + 1]
                         playerData == RestoreOrCreate(room.playerData,
                                         actualPlayerId, trimmedName, s)
                         user == IF HasUser(s) THEN User(s)
                                 ELSE [username |-> trimmedName,
                                       isAdmin |-> FALSE, roomId |-> "",
                                       playerId |-> actualPlayerId]
                         newRoom == [room EXCEPT !.playerData = playerData,
                                                 !.players = @ \cup {s}]
                     IN /\ minted' = IF reuse THEN minted ELSE minted + 1
                        /\ roomObjs' = [roomObjs EXCEPT ![r] = newRoom]
                        /\ users' = [users EXCEPT ![s] =
                              <<[user EXCEPT !.username = trimmedName,
                                             !.roomId = roomId,
                                             !.playerId = actualPlayerId]>>]
                        /\ ioRooms' = [ioRooms EXCEPT ![s] = @ \cup {roomId}]
                        /\ emitted' =
                             <<Event("room:joined", ToSocket(s),
                                 [roomId |-> roomId,
                                  playerCount |-> Cardinality(newRoom.players),
                                  isAdmin |-> user.isAdmin,
                                  drawnNumbers |-> room.drawnNumbers,
                                  playerId |-> actualPlayerId,
                                  playerName |-> trimmedName,
                                  bingoCard |->
                                    playerData[PlayerIndex(playerData,
                                                 actualPlayerId)].bingoCard]),
                               Event("player:joined", ToRoom(roomId),
                                 [playerCount |-> Cardinality(newRoom.players),
                                  playerId |-> actualPlayerId,
                                  playerName |-> trimmedName])>>
                             \o sendPlayersListToAdmin(newRoom)
                        /\ last' = Done("join", s, "", r)
                        /\ UNCHANGED <<conn, rooms, timers, roomHistory, clock,
                                       rowEvents, race>>

\* ------------------------------------------------------- player:bingoCard
\* "Store bingo card in room's playerData": on the profile of actualPlayerId,
\* or on a new profile under that id when the room has none.
StoreCard(playerData, actualPlayerId, bingoCard, username, s) ==
  LET k == PlayerIndex(playerData, actualPlayerId)
  IN IF actualPlayerId = "" THEN playerData
     ELSE IF k # 0 THEN [playerData EXCEPT ![k].bingoCard = bingoCard]
     ELSE Append(playerData,
            [id |-> actualPlayerId, username |-> username,
             bingoCard |-> bingoCard, socketId |-> s])

\* socket.on('player:bingoCard'); playerId is "" when absent. The copy of the
\* card kept on the user object (user.bingoCard) is read by no handler and is
\* not part of the state.
SubmitCard(s, roomId, bingoCard, playerId) ==
  /\ conn[s] = "open"
  /\ IF ~HasUser(s) \/ RoomAt(roomId) = 0
        \/ s \notin roomObjs[RoomAt(roomId)].players
     THEN Reject("submit", s, "InvalidRequest")
     ELSE LET r == RoomAt(roomId)
              room == roomObjs[r]
              user == User(s)
              actualPlayerId == IF playerId # "" THEN playerId ELSE user.playerId
              adminSocket == IF room.adminSocketId # NoSocket
                             THEN room.adminSocketId ELSE room.adminId
              after == [room EXCEPT !.playerData =
                   StoreCard(@, actualPlayerId, bingoCard, user.username, s)]
          IN /\ roomObjs' = [roomObjs EXCEPT ![r] = after]
             /\ race' = [race EXCEPT ![r] = RaceAfterSubmit(@, room, after)]
             /\ emitted' =
                  IF SocketExists(adminSocket)
                  THEN <<Event("player:bingoCard", ToSocket(adminSocket),
                           [playerId |-> actualPlayerId,
                            socketId |-> IF actualPlayerId # ""
                                         THEN NoSocket ELSE s,
                            playerName |-> user.username,
                            bingoCard |-> bingoCard])>>
                  ELSE <<>>
             /\ last' = Done("submit", s, "", r)
             /\ UNCHANGED <<conn, users, ioRooms, rooms, timers, roomHistory,
                            clock, minted, rowEvents>>

\* -------------------------------------------------------- game:drawNumber
\* A gate that lets every draw through.
DrawGateAlwaysOpen(room) == TRUE

\* The test "if (room.gameOver)" that gates a draw.
DrawGateOpen(room) == ~room.gameOver

\* A loop that does not test the number it ends on.
UndrawnUntested(drawnNumbers) == Nums

\* The numbers the do-while loop "while (room.drawnNumbers.has(number))" can
\* end on.
Undrawn(drawnNumbers) == Nums \ drawnNumbers

\* The test "room.drawnNumbers.size >= 90".
PoolExhausted(drawnNumbers) == Cardinality(drawnNumbers) >= PoolSize

\* socket.on('game:drawNumber'): number is the value the do-while loop over
\* Math.random() ends on, any number of the pool not yet drawn.
\* A scheduling that keeps one pending check at a time.
ScheduleCheckCoalesced(pending, t) ==
  IF Len(pending) > 0 THEN pending ELSE Append(pending, t)

\* setTimeout(callback, 1500): one more pending callback, after those set
\* before it.
ScheduleCheck(pending, t) == Append(pending, t)

DrawNumber(s, number) ==
  /\ conn[s] = "open"
  /\ IF ~HasUser(s) \/ ~User(s).isAdmin \/ User(s).roomId = ""
     THEN number = 0 /\ Reject("draw", s, "NotAuthorized")
     ELSE IF RoomAt(User(s).roomId) = 0
     THEN number = 0 /\ Reject("draw", s, "RoomNotFound")
     ELSE IF ~DrawGateOpen(roomObjs[RoomAt(User(s).roomId)])
     THEN number = 0 /\ Reject("draw", s, "GameOver")
     ELSE IF PoolExhausted(roomObjs[RoomAt(User(s).roomId)].drawnNumbers)
     THEN number = 0 /\ Reject("draw", s, "PoolExhausted")
     ELSE LET r == RoomAt(User(s).roomId)
              drawn == roomObjs[r].drawnNumbers \cup {number}
              after == [roomObjs[r] EXCEPT !.drawnNumbers = drawn]
          IN /\ number \in Undrawn(roomObjs[r].drawnNumbers)
             /\ roomObjs' = [roomObjs EXCEPT ![r] = after]
             /\ race' = [race EXCEPT ![r] = RaceAfterDraw(@, after)]
             /\ emitted' = <<Event("game:numberDrawn", ToRoom(User(s).roomId),
                               [number |-> number,
                                startTime |-> clock + RevealLead,
                                drawnNumbers |-> drawn])>>
             /\ timers' = ScheduleCheck(timers,
                            [room |-> r, sock |-> s, live |-> TRUE, roomId |-> ""])
             /\ last' = Done("draw", s, "", r)
             /\ UNCHANGED <<conn, users, ioRooms, rooms, roomHistory, clock,
                            minted, rowEvents>>

\* ---------------------------------------------------- the win-check timer
\* user.roomId as the callback reads it when it fires.
TimerTarget(t) == IF t.live THEN User(t.sock).roomId ELSE t.roomId

\* if (!room.winnerInfo): the winner record is written once.
WinnerRewritten(room) == FALSE

WinnerRecorded(room) == room.winnerInfo # <<>>

\* The last completion of a pass.
LastCompletion(found) == found[Len(found)]

\* completedRows[0], which is also the completion the forEach meets first.
FirstCompletion(found) == found[1]

\* The room after the callback's body, given what the scan returned.
AfterWinCheck(room, scan) ==
  IF Len(scan.found) = 0
  THEN [room EXCEPT !.completedRows = scan.done]
  ELSE LET first == FirstCompletion(scan.found)
       IN [room EXCEPT
             !.completedRows = scan.done,
             !.gameOver = TRUE,
             !.winner = IF room.gameOver THEN @ ELSE <<first.playerName>>,
             !.winnerInfo =
                IF WinnerRecorded(room) THEN @
                ELSE <<[playerId |-> first.playerId,
                        playerName |-> first.playerName,
                        rowNumber |-> first.rowNumber,
                        numbers |-> first.numbers,
                        bingoCard |->
                          room.playerData[PlayerIndex(room.playerData,
                            first.playerId)].bingoCard]>>]

\* The setTimeout callback of the oldest pending draw (equal delays fire in
\* the order they were set).
WinCheck ==
  /\ Len(timers) > 0
  /\ LET t == Head(timers)
         room == roomObjs[t.room]
         scan == checkPlayersForCompletedRows(room)
         target == TimerTarget(t)
     IN /\ roomObjs' = [roomObjs EXCEPT ![t.room] = AfterWinCheck(room, scan)]
        /\ emitted' = [i \in 1..Len(scan.found) |->
                         Event("game:rowCompleted", ToRoom(target),
                           [playerName |-> scan.found[i].playerName,
                            rowNumber |-> scan.found[i].rowNumber,
                            numbers |-> scan.found[i].numbers])]
        /\ rowEvents' = [rowEvents EXCEPT ![t.room] = @ \o
                           [i \in 1..Len(scan.found) |->
                              [playerId |-> scan.found[i].playerId,
                               rowNumber |-> scan.found[i].rowNumber,
                               to |-> target]]]
        /\ last' = Done("wincheck", t.sock, "", t.room)
  /\ timers' = Tail(timers)
  /\ UNCHANGED <<conn, users, ioRooms, rooms, roomHistory, clock, minted, race>>

\* ------------------------------------------------------------- room:close
\* roomHistory.sort((a, b) => new Date(a.closedAt) - new Date(b.closedAt)):
\* a stable sort, oldest first.
RECURSIVE InsertByClosedAt(_, _)
InsertByClosedAt(sorted, rec) ==
  IF Len(sorted) = 0 THEN <<rec>>
  ELSE IF sorted[Len(sorted)].closedAt <= rec.closedAt THEN Append(sorted, rec)
  ELSE Append(InsertByClosedAt(SubSeq(sorted, 1, Len(sorted) - 1), rec),
              sorted[Len(sorted)])

RECURSIVE SortByClosedAt(_)
SortByClosedAt(history) ==
  IF Len(history) = 0 THEN <<>>
  ELSE InsertByClosedAt(SortByClosedAt(SubSeq(history, 1, Len(history) - 1)),
                        history[Len(history)])

\* cleanupOldRooms, were the history sliced as it stands.
cleanupOldRoomsUnsorted(history, maxSize) ==
  IF Len(history) <= maxSize THEN history
  ELSE SubSeq(history, Len(history) - maxSize + 1, Len(history))

cleanupOldRooms(history, maxSize) ==
  IF Len(history) <= maxSize THEN history
  ELSE SubSeq(SortByClosedAt(history), Len(history) - maxSize + 1, Len(history))

\* bigFile: whether the history file on disk is over the 100 MB limit.
checkDiskSpaceAndCleanup(history, bigFile) ==
  IF Len(history) > MAX_HISTORY_SIZE
  THEN cleanupOldRooms(history, MAX_HISTORY_SIZE)
  ELSE IF bigFile THEN cleanupOldRooms(history, (MAX_HISTORY_SIZE * 8) \div 10)
  ELSE history

addRoomToHistory(history, roomData, bigFile) ==
  checkDiskSpaceAndCleanup(Append(history, roomData), bigFile)

\* The summary, were its players the connections of the room.
SummaryOfConnections(room) ==
  [roomId |-> room.roomId, closedAt |-> clock,
   winner |-> room.winnerInfo[1].playerName,
   winnerRowNumber |-> room.winnerInfo[1].rowNumber,
   winnerNumbers |-> room.winnerInfo[1].numbers,
   winnerBingoCard |-> room.winnerInfo[1].bingoCard,
   totalPlayers |-> Cardinality(room.players),
   totalNumbersDrawn |-> Cardinality(room.drawnNumbers)]

\* The summary room:close hands to addRoomToHistory.
Summary(room) ==
  [roomId |-> room.roomId, closedAt |-> clock,
   winner |-> room.winnerInfo[1].playerName,
   winnerRowNumber |-> room.winnerInfo[1].rowNumber,
   winnerNumbers |-> room.winnerInfo[1].numbers,
   winnerBingoCard |-> room.winnerInfo[1].bingoCard,
   totalPlayers |-> Len(room.playerData),
   totalNumbersDrawn |-> Cardinality(room.drawnNumbers)]

\* The test of the first branch of room:close, were it passed by everyone.
IsRoomAdminAnyone(s, room) == TRUE

\* The test of the first branch of room:close.
IsRoomAdmin(s, room) == HasUser(s) /\ User(s).isAdmin /\ room.adminId = s

\* socket.on('room:close').
CloseRoom(s, roomId, bigFile) ==
  /\ conn[s] = "open"
  /\ IF RoomAt(roomId) = 0
     THEN ~bigFile /\ Reject("close", s, "RoomNotFound")
     ELSE LET r == RoomAt(roomId)
              room == roomObjs[r]
              archive == room.gameOver /\ room.winnerInfo # <<>>
          IN IF IsRoomAdmin(s, room) \/ room.gameOver
             THEN /\ archive \/ ~bigFile
                  /\ roomHistory' = IF archive
                                    THEN addRoomToHistory(roomHistory,
                                           Summary(room), bigFile)
                                    ELSE roomHistory
                  /\ clock' = IF archive THEN clock + 1 ELSE clock
                  /\ emitted' = <<Event("room:closed", ToRoom(roomId),
                       [message |-> IF IsRoomAdmin(s, room)
                                    THEN "Room has been closed"
                                    ELSE "Game is over. Room is closing."])>>
                  /\ rooms' = [rooms EXCEPT ![roomId] = 0]
                  /\ last' = Done("close", s, "", r)
                  /\ UNCHANGED <<conn, users, ioRooms, roomObjs, timers, minted,
                                 rowEvents, race>>
             ELSE /\ ~bigFile
                  /\ emitted' = <<>>
                  /\ last' = Done("close", s, "Ignored", r)
                  /\ UNCHANGED <<conn, users, ioRooms, rooms, roomObjs, timers,
                                 roomHistory, clock, minted, rowEvents, race>>

\* ------------------------------------------------------------- disconnect
\* What disconnect does, were the profile of the leaving player dropped.
AfterDisconnectForgetting(room, s, user) ==
  [room EXCEPT !.players = @ \ {s},
               !.playerData = SelectSeq(@, LAMBDA p : p.id # user.playerId)]

\* What disconnect does to the room of the leaving user.
AfterDisconnect(room, s, user) ==
  LET left == [room EXCEPT !.players = @ \ {s}]
      k == PlayerIndex(room.playerData, user.playerId)
  IN IF user.isAdmin /\ (room.adminSocketId = s \/ room.adminId = s)
     THEN [left EXCEPT !.adminSocketId = NoSocket]
     ELSE IF user.playerId # "" /\ k # 0
     THEN [left EXCEPT !.playerData[k].socketId = NoSocket]
     ELSE left

\* socket.on('disconnect'): the socket is gone from io.sockets.sockets and
\* from its socket.io rooms when the handler runs.
Disconnect(s) ==
  /\ conn[s] = "open"
  /\ conn' = [conn EXCEPT ![s] = "closed"]
  /\ ioRooms' = [ioRooms EXCEPT ![s] = {}]
  /\ users' = [users EXCEPT ![s] = <<>>]
  /\ timers' = IF HasUser(s) THEN Detach(s) ELSE timers
  /\ IF HasUser(s) /\ RoomAt(User(s).roomId) # 0
     THEN LET r == RoomAt(User(s).roomId)
              user == User(s)
              room == AfterDisconnect(roomObjs[r], s, user)
              asAdmin == user.isAdmin /\ (roomObjs[r].adminSocketId = s
                                          \/ roomObjs[r].adminId = s)
          IN /\ roomObjs' = [roomObjs EXCEPT ![r] = room]
             /\ emitted' =
                  IF ~asAdmin /\ user.playerId # ""
                  THEN <<Event("player:left", ToRoom(user.roomId),
                           [playerCount |-> Cardinality(room.players),
                            playerId |-> user.playerId,
                            playerName |-> user.username])>>
                       \o (IF room.adminSocketId = s THEN <<>>
                           ELSE sendPlayersListToAdmin(room))
                  ELSE <<>>
             /\ last' = Done("disconnect", s, "", r)
     ELSE /\ emitted' = <<>>
          /\ last' = Done("disconnect", s, "", 0)
          /\ UNCHANGED roomObjs
  /\ UNCHANGED <<rooms, roomHistory, clock, minted, rowEvents, race>>

\* ---------------------------------------------------------- specification
\* The display names clients send: two that differ in case only, one with
\* surrounding blanks, a distinct one, and two that are empty after trimming.
PlayerNames == {<<"A">>, <<"a">>, <<" ", "a", " ">>, <<"B">>, <<" ">>, <<>>}

\* The cards clients send.
FullRow == <<1, 1, 1, 1, 1>>
MixedRow == <<1, 2, 1, 2, 1>>
WideRow == <<2, 2, Blank, 2, 2, 2>>
OneRowCard == << FullRow >>
TwoRowCard == << WideRow, MixedRow >>
Cards == {OneRowCard, TwoRowCard}

\* A rejected request changes nothing but the events sent, so what can follow
\* it is what could follow the state before it: a run makes its requests from
\* states reached by an accepted one, and a rejected request is explored as
\* the last request of its run. Timers fire regardless.
Ready == last.err = ""

\* The requests clients make, as sets of argument tuples, one set per
\* handler; every specification below runs all the handlers and the timer,
\* under its own choice of the requests the clients may send.
NextIn(E) ==
  \/ Ready /\ \E a \in E.login : AdminLogin(a[1], a[2])
  \/ Ready /\ \E a \in E.create, n \in Codes \cup {""} :
       /\ n # "" => Len(roomObjs) < E.rooms
       /\ CreateRoom(a[1], a[2], n)
  \/ Ready /\ \E a \in E.join : JoinRoom(a[1], a[2], a[3], a[4])
  \/ Ready /\ \E a \in E.submit : SubmitCard(a[1], a[2], a[3], a[4])
  \/ Ready /\ \E s \in E.draw, n \in Nums \cup {0} : DrawNumber(s, n)
  \/ WinCheck
  \/ Ready /\ \E a \in E.close : CloseRoom(a[1], a[2], a[3])
  \/ Ready /\ \E s \in E.disconnect : Disconnect(s)

\* The game: socket 1 is the operator and socket 2 a second operator or a
\* player; two players with distinct names join and reconnect, submit cards,
\* and the operator draws until the pool is empty or the game over.
EnvGame ==
  [rooms |-> GameRooms,
   login |-> {<<1, TRUE>>, <<1, FALSE>>, <<2, TRUE>>},
   create |-> {<<1, "">>, <<2, "AB12CD">>},
   join |-> {<<2, "AB12CD", <<"A">>, "">>, <<2, "AB12CD", <<"B">>, "">>,
             <<2, "AB12CD", <<"A">>, "p1">>},
   submit |-> {<<2, "AB12CD", OneRowCard, "">>,
               <<2, "AB12CD", TwoRowCard, "p1">>},
   draw |-> {1, 2},
   close |-> {<<1, "AB12CD", FALSE>>},
   disconnect |-> {1, 2}]

Spec == Init /\ [][NextIn(EnvGame)]_vars

\* The row rule: every row of up to MaxCells cells, each blank or a number of
\* the pool, on a one-row card, against every non-empty set of drawn numbers.
\* The initial states are those the operator (socket 1) and one player
\* (socket 2, "A") reach by login, create, join, the draws with all win
\* checks but the last fired, and the submission of the card.
RECURSIVE RowsOfLength(_)
RowsOfLength(n) ==
  IF n = 0 THEN {<<>>}
  ELSE {Append(row, cell) : row \in RowsOfLength(n - 1), cell \in Nums \cup {Blank}}

Rows == UNION {RowsOfLength(n) : n \in 0..MaxCells}

InitRow ==
  \E row \in Rows, drawn \in (SUBSET Nums) \ {{}} :
    /\ conn = [s \in Sockets |-> "open"]
    /\ users = [s \in Sockets |->
         IF s = 1 THEN <<[username |-> AdminName, isAdmin |-> TRUE,
                          roomId |-> "AB12CD", playerId |-> ""]>>
         ELSE IF s = 2 THEN <<[username |-> <<"A">>, isAdmin |-> FALSE,
                               roomId |-> "AB12CD", playerId |-> "p1"]>>
         ELSE <<>>]
    /\ ioRooms = [s \in Sockets |-> IF s \in {1, 2} THEN {"AB12CD"} ELSE {}]
    /\ rooms = [c \in Codes |-> IF c = "AB12CD" THEN 1 ELSE 0]
    /\ roomObjs = <<[NewRoom(1, "AB12CD") EXCEPT
                       !.players = {1, 2},
                       !.drawnNumbers = drawn,
                       !.playerData = <<[id |-> "p1", username |-> <<"A">>,
                                         bingoCard |-> <<row>>, socketId |-> 2]>>]>>
    /\ timers = <<[room |-> 1, sock |-> 1, live |-> TRUE, roomId |-> ""]>>
    /\ roomHistory = <<>>
    /\ clock = 0
    /\ minted = 1
    /\ emitted = <<Event("player:bingoCard", ToSocket(1),
                     [playerId |-> "p1", socketId |-> NoSocket,
                      playerName |-> <<"A">>, bingoCard |-> <<row>>])>>
    /\ last = Done("submit", 2, "", 1)
    /\ rowEvents = << <<>> >>
    /\ race = <<RaceAfterSubmit(NoRace, roomObjs[1], roomObjs[1])>>

SpecRow == InitRow /\ [][WinCheck]_vars

\* Detection: one operator, one socket that joins under two names, submits
\* and replaces cards, while the operator draws and closes the room. Every
\* setTimeout callback that was scheduled runs: timers are never cancelled.
EnvLive ==
  [rooms |-> GameRooms,
   login |-> {<<1, TRUE>>},
   create |-> {<<1, "">>},
   join |-> {<<2, "AB12CD", <<"A">>, "">>, <<2, "AB12CD", <<"B">>, "">>},
   submit |-> {<<2, "AB12CD", OneRowCard, "">>,
               <<2, "AB12CD", TwoRowCard, "p1">>},
   draw |-> {1},
   close |-> {<<1, "AB12CD", FALSE>>},
   disconnect |-> {2}]

SpecLive == Init /\ [][NextIn(EnvLive)]_vars /\ WF_vars(WinCheck)

\* Identity: socket 2 joins one room under names that differ in case and in
\* surrounding blanks, with no player id, with the id of a profile of the
\* room or with an id the room does not know, and submits a card for itself
\* or for an explicit player id.
JoinRequests == {2} \X {"AB12CD"} \X PlayerNames \X {"", "p1", ForeignId}

SubmitRequests == {2} \X {"AB12CD"} \X {OneRowCard} \X {"", "p1", ForeignId}

EnvIdentity ==
  [rooms |-> GameRooms,
   login |-> {<<1, TRUE>>},
   create |-> {<<1, "">>},
   join |-> JoinRequests,
   submit |-> SubmitRequests,
   draw |-> {1},
   close |-> {<<1, "AB12CD", FALSE>>},
   disconnect |-> {2}]

SpecIdentity == Init /\ [][NextIn(EnvIdentity)]_vars

\* The room lifecycle: sockets 1 and 2 are operators, socket 3 is a player.
\* Operators create rooms, leave, re-bind and close; the player joins the
\* first room and plays it to its end; every socket asks for the close.
CloseRequests == {1, 2, 3} \X {"AB12CD"} \X {FALSE}

EnvAdmin ==
  [rooms |-> GameRooms,
   login |-> {<<1, TRUE>>, <<2, TRUE>>},
   create |-> {<<1, "">>, <<2, "AB12CD">>, <<3, "">>},
   join |-> {<<3, "AB12CD", <<"A">>, "">>},
   submit |-> {<<3, "AB12CD", OneRowCard, "">>},
   draw |-> {1, 2},
   close |-> CloseRequests,
   disconnect |-> {1, 3}]

SpecAdmin == Init /\ [][NextIn(EnvAdmin)]_vars

\* The history: the file loaded at startup holds up to MaxLoaded records in
\* any order, and finished rooms are archived one after the other, each at
\* the time of the clock, the file on disk being over its size limit or not.
HistoryRecord(t) ==
  [roomId |-> "AB12CD", closedAt |-> t, winner |-> <<"A">>,
   winnerRowNumber |-> 1, winnerNumbers |-> FullRow,
   winnerBingoCard |-> OneRowCard, totalPlayers |-> 1,
   totalNumbersDrawn |-> 1]

RECURSIVE Histories(_)
Histories(n) ==
  IF n = 0 THEN {<<>>}
  ELSE Histories(n - 1) \cup
       {Append(h, HistoryRecord(t)) :
          h \in {g \in Histories(n - 1) : Len(g) = n - 1}, t \in 0..MaxTime}

InitHistory ==
  /\ roomHistory \in Histories(MaxLoaded)
  /\ conn = [s \in Sockets |-> "open"]
  /\ users = [s \in Sockets |-> <<>>]
  /\ ioRooms = [s \in Sockets |-> {}]
  /\ rooms = [c \in Codes |-> 0]
  /\ roomObjs = <<>>
  /\ timers = <<>>
  /\ clock = 0
  /\ minted = 0
  /\ emitted = <<>>
  /\ last = Done("init", NoSocket, "", 0)
  /\ rowEvents = <<>>
  /\ race = <<>>

\* addRoomToHistory(roomData) as room:close calls it, closedAt being now.
ArchiveRecord(bigFile) ==
  /\ clock < MaxTime
  /\ roomHistory' = addRoomToHistory(roomHistory, HistoryRecord(clock), bigFile)
  /\ clock' = clock + 1
  /\ last' = Done("archive", NoSocket, "", 0)
  /\ UNCHANGED <<conn, users, ioRooms, rooms, roomObjs, timers, minted,
                 emitted, rowEvents, race>>

SpecHistory == InitHistory /\ [][\E b \in BOOLEAN : ArchiveRecord(b)]_vars

\* Room creation: operators 1 and 2 create rooms with and without naming a
\* code, while the first room is played, left and closed; socket 3, a
\* player, asks for a room too.
\* Two connections of one player: socket 2 joins as a new player and socket
\* 3 presents the id socket 2 was given.
EnvReconnect ==
  [rooms |-> GameRooms,
   login |-> {<<1, TRUE>>},
   create |-> {<<1, "">>},
   join |-> {<<2, "AB12CD", <<"A">>, "">>, <<3, "AB12CD", <<"A">>, "p1">>},
   submit |-> {<<2, "AB12CD", OneRowCard, "">>, <<3, "AB12CD", TwoRowCard, "">>},
   draw |-> {1},
   close |-> {<<1, "AB12CD", FALSE>>},
   disconnect |-> {2, 3}]

SpecReconnect == Init /\ [][NextIn(EnvReconnect)]_vars

CreateProbes ==
  {<<1, "">>, <<1, "AB12CD">>, <<2, "">>, <<2, "AB12CD">>, <<3, "">>}

EnvCreate ==
  [rooms |-> AdminRooms,
   login |-> {<<1, TRUE>>, <<2, TRUE>>},
   create |-> CreateProbes,
   join |-> {<<3, "AB12CD", <<"A">>, "">>},
   submit |-> {<<3, "AB12CD", OneRowCard, "">>},
   draw |-> {1},
   close |-> {<<1, "AB12CD", FALSE>>},
   disconnect |-> {1}]

SpecCreate == Init /\ [][NextIn(EnvCreate)]_vars

\* ------------------------------------------------------------ the claims
\* The room a draw request of socket s is applied to: rooms.get(user.roomId),
\* 0 when s has no user object or its roomId names no live room.
BoundRoom(s) == IF HasUser(s) THEN RoomAt(User(s).roomId) ELSE 0

Sent(type) == \E i \in 1..Len(emitted) : emitted[i].type = type

\* C1, in every state: the drawn numbers of every room are numbers of the
\* pool, and there are at most as many as the pool holds.
C1_DrawnInPool ==
  \A r \in 1..Len(roomObjs) :
    /\ roomObjs[r].drawnNumbers \subseteq Nums
    /\ Cardinality(roomObjs[r].drawnNumbers) <= PoolSize

\* C1, in every step: no number leaves a room's drawnNumbers; an accepted
\* draw adds exactly one number that was not there (no duplicate); a draw
\* requested when the whole pool is drawn is rejected, changes no room and
\* schedules nothing, and the rejection is PoolExhausted when the earlier
\* tests of the handler (operator, game not over) let the request through.
C1_DrawStep ==
  /\ \A r \in 1..Len(roomObjs) :
       roomObjs[r].drawnNumbers \subseteq roomObjs'[r].drawnNumbers
  /\ (last'.op = "draw" /\ last'.err = "")
       => Cardinality(roomObjs'[last'.room].drawnNumbers)
            = Cardinality(roomObjs[last'.room].drawnNumbers) + 1
  /\ \A s \in Sockets :
       (/\ last'.op = "draw" /\ last'.sock = s
        /\ BoundRoom(s) # 0
        /\ Cardinality(roomObjs[BoundRoom(s)].drawnNumbers) = PoolSize)
       => /\ last'.err # ""
          /\ roomObjs' = roomObjs
          /\ timers' = timers
          /\ (User(s).isAdmin /\ ~roomObjs[BoundRoom(s)].gameOver)
               => last'.err = "PoolExhausted"

\* C1: drawnNumbers holds only pool numbers, without duplicate, at most the
\* pool's size; a draw never removes a number, and a draw on an exhausted pool
\* is rejected without changing drawnNumbers.
C1_DrawnNumbers == []C1_DrawnInPool /\ [][C1_DrawStep]_vars

\* A draw was rejected with PoolExhausted in a room whose pool is all drawn.
C1_Witness ==
  /\ last.op = "draw" /\ last.err = "PoolExhausted"
  /\ Cardinality(roomObjs[BoundRoom(last.sock)].drawnNumbers) = PoolSize

\* C2, in every step: a room that is over stays over, and a draw requested
\* for a room that is over is rejected (with GameOver when the requester
\* passes the operator test), draws no number, sends no game:numberDrawn and
\* schedules no win check.
C2_OverStep ==
  /\ \A r \in 1..Len(roomObjs) : roomObjs[r].gameOver => roomObjs'[r].gameOver
  /\ \A s \in Sockets :
       (/\ last'.op = "draw" /\ last'.sock = s
        /\ BoundRoom(s) # 0
        /\ roomObjs[BoundRoom(s)].gameOver)
       => /\ last'.err \in {"NotAuthorized", "GameOver"}
          /\ User(s).isAdmin => last'.err = "GameOver"
          /\ roomObjs' = roomObjs
          /\ timers' = timers
          /\ \A i \in 1..Len(emitted') : emitted'[i].type # "game:numberDrawn"

\* C2: over is never reset, and once a room is over every draw on it fails,
\* adding no number, broadcasting nothing and scheduling no win check.
C2_OverGatesDraws == [][C2_OverStep]_vars

\* The operator's draw was rejected with GameOver in a room that is over.
C2_Witness ==
  /\ last.op = "draw" /\ last.err = "GameOver"
  /\ roomObjs[BoundRoom(last.sock)].gameOver
  /\ roomObjs[BoundRoom(last.sock)].drawnNumbers # {}

\* C3: a number is added to a room's drawnNumbers only by a request of the
\* connection in the room's admin slot.
C3_OnlyBoundAdminDraws ==
  (last.op = "draw" /\ last.err = "")
    => roomObjs[last.room].adminSocketId = last.sock

\* rowEvents holds a game:rowCompleted event of room object r for row i (from
\* 1) of player pid.
Reported(r, pid, i) ==
  \E e \in 1..Len(rowEvents[r]) :
    rowEvents[r][e].playerId = pid /\ rowEvents[r][e].rowNumber = i

\* C4: checkRowComplete reports a row iff it has exactly RowWidth non-blank
\* numbers, all of them drawn, and then returns these numbers in order; after
\* the first win check of a room, a row is reported by a game:rowCompleted
\* event iff the rule holds of it, and every event sent lists RowWidth numbers
\* that are all in the room's drawnNumbers.
C4_RowRule ==
  /\ \A k \in 1..Len(roomObjs[1].playerData) :
       \A i \in 1..Len(roomObjs[1].playerData[k].bingoCard) :
         LET row == roomObjs[1].playerData[k].bingoCard[i]
             drawn == roomObjs[1].drawnNumbers
         IN /\ (checkRowComplete(row, drawn) # <<>>) <=> RowRule(row, drawn)
            /\ RowRule(row, drawn) =>
                 checkRowComplete(row, drawn) = SelectSeq(row, LAMBDA c : c # Blank)
            /\ last.op = "wincheck" =>
                 (Reported(1, roomObjs[1].playerData[k].id, i) <=> RowRule(row, drawn))
  /\ last.op = "wincheck" =>
       /\ Len(emitted) = Len(rowEvents[1])
       /\ \A e \in 1..Len(emitted) :
            /\ emitted[e].type = "game:rowCompleted"
            /\ Len(emitted[e].payload.numbers) = RowWidth
            /\ \A j \in 1..RowWidth :
                 emitted[e].payload.numbers[j] \in roomObjs[1].drawnNumbers

\* A win check reported a row that has a blank cell among its RowWidth drawn
\* numbers.
C4_Witness ==
  /\ last.op = "wincheck"
  /\ Len(emitted) = 1
  /\ \E j \in 1..Len(roomObjs[1].playerData[1].bingoCard[1]) :
       roomObjs[1].playerData[1].bingoCard[1][j] = Blank

\* C5, in every state: the game:rowCompleted events of a room object name no
\* (player id, row) pair twice, and they name exactly the pairs of
\* completedRows.
C5_NoRepeat ==
  \A r \in 1..Len(roomObjs) :
    /\ \A e, f \in 1..Len(rowEvents[r]) :
         (/\ rowEvents[r][e].playerId = rowEvents[r][f].playerId
          /\ rowEvents[r][e].rowNumber = rowEvents[r][f].rowNumber) => e = f
    /\ roomObjs[r].completedRows =
         {RowKey(rowEvents[r][e].playerId, rowEvents[r][e].rowNumber - 1) :
            e \in 1..Len(rowEvents[r])}

\* C5, in every step: no entry leaves completedRows.
C5_Monotone ==
  \A r \in 1..Len(roomObjs) :
    roomObjs[r].completedRows \subseteq roomObjs'[r].completedRows

\* C5: for each (player id, row) of a room at most one game:rowCompleted is
\* ever sent, and an entry of notifiedRows is never removed.
C5_NotifiedOnce == []C5_NoRepeat /\ [][C5_Monotone]_vars

\* A win check found a row complete that an earlier one had reported, and sent
\* nothing.
C5_Witness ==
  /\ last.op = "wincheck"
  /\ Len(emitted) = 0
  /\ \E k \in 1..Len(roomObjs[last.room].playerData) :
       \E i \in 1..Len(roomObjs[last.room].playerData[k].bingoCard) :
         /\ Reported(last.room, roomObjs[last.room].playerData[k].id, i)
         /\ RowRule(roomObjs[last.room].playerData[k].bingoCard[i],
                    roomObjs[last.room].drawnNumbers)

\* C6 as stated, in every state: a player whose first complete row came at a
\* draw later than the draw that completed the first row of the room is not
\* the recorded winner, whatever was drawn before the win check fired.
C6_FirstCompleterWins ==
  \A r \in 1..Len(roomObjs) :
    roomObjs[r].winnerInfo # <<>> =>
      roomObjs[r].winnerInfo[1].playerId \notin race[r].later

\* C6 as the callback behaves, in every state: when a draw completed the
\* first row of the room and no draw was accepted and no card submitted
\* before a win check fired, the recorded winner is a player whose row that
\* draw completed.
C6_FirstCompleterWinsUnraced ==
  \A r \in 1..Len(roomObjs) :
    (roomObjs[r].winnerInfo # <<>> /\ race[r].phase = "first") =>
      roomObjs[r].winnerInfo[1].playerId \in race[r].who

\* A win check has recorded the winner of an unraced room in which another
\* player holds a card that the first completing draw did not complete.
C6_Witness ==
  /\ last.op = "wincheck"
  /\ roomObjs[last.room].winnerInfo # <<>>
  /\ race[last.room].phase = "first"
  /\ \E k \in 1..Len(roomObjs[last.room].playerData) :
       /\ roomObjs[last.room].playerData[k].bingoCard # NoCard
       /\ roomObjs[last.room].playerData[k].id \notin race[last.room].who

\* Row i of the card of player pid in room object r is complete.
RowComplete(r, pid, i) ==
  /\ r <= Len(roomObjs)
  /\ LET k == PlayerIndex(roomObjs[r].playerData, pid)
     IN /\ k # 0
        /\ roomObjs[r].playerData[k].bingoCard # NoCard
        /\ i <= Len(roomObjs[r].playerData[k].bingoCard)
        /\ RowRule(roomObjs[r].playerData[k].bingoCard[i],
                   roomObjs[r].drawnNumbers)

TimesReported(r, pid, i) ==
  Cardinality({e \in 1..Len(rowEvents[r]) :
                 /\ rowEvents[r][e].playerId = pid
                 /\ rowEvents[r][e].rowNumber = i})

\* The row was reported once, the room is over and has a winner.
Detected(r, pid, i) ==
  /\ TimesReported(r, pid, i) = 1
  /\ roomObjs[r].gameOver
  /\ roomObjs[r].winner # <<>>
  /\ roomObjs[r].winnerInfo # <<>>

\* C7, liveness: after a draw is accepted in a room, eventually every row
\* that is complete there (as is every row the draw completed, unless its
\* card was replaced) has been reported once, with the room over and a
\* winner set.
C7_EventuallyDetected ==
  \A r \in 1..GameRooms :
    (last.op = "draw" /\ last.err = "" /\ last.room = r)
      ~> (\A pid \in PlayerIds, i \in 1..MaxCardRows :
            RowComplete(r, pid, i) => Detected(r, pid, i))

\* C7, in every state: no row is reported more than once, and a room is not
\* over, and has reported nothing, when a draw has just been accepted in it.
C7_AtMostOnce ==
  /\ \A r \in 1..Len(roomObjs), pid \in PlayerIds, i \in 1..MaxCardRows :
       TimesReported(r, pid, i) <= 1
  /\ (last.op = "draw" /\ last.err = "") =>
       (~roomObjs[last.room].gameOver /\ rowEvents[last.room] = <<>>)

\* C7, for every win check that finds the room not over: each complete row
\* is reported by it, the room is over afterwards with a winner set, and the
\* winner is the player of the row when no other player has a complete row.
C7_CheckStep ==
  \A r \in 1..Len(roomObjs), pid \in PlayerIds, i \in 1..MaxCardRows :
    (last'.op = "wincheck" /\ last'.room = r /\ ~roomObjs[r].gameOver
       /\ RowComplete(r, pid, i)) =>
      LET name == roomObjs[r].playerData[
                    PlayerIndex(roomObjs[r].playerData, pid)].username
      IN /\ Detected(r, pid, i)'
         /\ \E e \in 1..Len(emitted') :
              /\ emitted'[e].type = "game:rowCompleted"
              /\ emitted'[e].payload.rowNumber = i
              /\ emitted'[e].payload.playerName = name
         /\ CompleteNow(roomObjs[r]) = {pid} =>
              /\ roomObjs'[r].winnerInfo[1].playerId = pid
              /\ roomObjs'[r].winner = <<name>>

C7_CompletingDrawDetected ==
  C7_EventuallyDetected /\ []C7_AtMostOnce /\ [][C7_CheckStep]_vars

\* A win check has reported the row that the first completing draw completed
\* on the card of the only player with a complete row, who is the winner,
\* while another player holds a card.
C7_Witness ==
  /\ last.op = "wincheck"
  /\ race[last.room].phase = "first"
  /\ Len(roomObjs[last.room].playerData) > 1
  /\ \E pid \in PlayerIds, i \in 1..MaxCardRows :
       /\ CompleteNow(roomObjs[last.room]) = {pid}
       /\ race[last.room].who = {pid}
       /\ Detected(last.room, pid, i)
       /\ roomObjs[last.room].winnerInfo[1].playerId = pid
       /\ \E e \in 1..Len(emitted) : emitted[e].payload.rowNumber = i

\* The payload of the room:joined event of the last step.
Joined == emitted[1].payload

\* A join request of a live room that presents the id of a profile of the
\* room, and the index of that profile.
Reconnects(a) ==
  /\ RoomAt(a[2]) # 0
  /\ a[4] # ""
  /\ PlayerIndex(roomObjs[RoomAt(a[2])].playerData, a[4]) # 0

Presented(a) == PlayerIndex(roomObjs[RoomAt(a[2])].playerData, a[4])

\* What C8 says of every reconnection but the name: no profile is added,
\* the id is the presented one, the card is the stored one.
ReconnectKeeps(a) ==
  LET r == RoomAt(a[2])
      k == Presented(a)
  IN /\ Len(roomObjs'[r].playerData) = Len(roomObjs[r].playerData)
     /\ Joined'.playerId = a[4]
     /\ Joined'.bingoCard = roomObjs[r].playerData[k].bingoCard
     /\ roomObjs'[r].playerData[k].id = a[4]
     /\ roomObjs'[r].playerData[k].bingoCard =
          roomObjs[r].playerData[k].bingoCard

\* C8 as stated, for every accepted room:join that presents the id of a
\* profile of the room: no profile is added, the returned id is the
\* presented one, the returned card is the stored one, and the returned name
\* is the name stored on the profile before the request.
C8_ReconnectStep ==
  \A a \in JoinRequests :
    (last'.op = "join" /\ last'.err = "" /\ Reconnects(a)
       /\ JoinRoom(a[1], a[2], a[3], a[4])) =>
      /\ ReconnectKeeps(a)
      /\ Joined'.playerName =
           roomObjs[RoomAt(a[2])].playerData[Presented(a)].username

C8_ReconnectRestores == [][C8_ReconnectStep]_vars

\* C8 as room:join behaves, for every accepted room:join that presents the id
\* of a profile of the room: no profile is added, the returned id is the
\* presented one, the returned card is the stored one, and the returned name
\* is the trimmed name of the request, which is stored on the profile.
C8_RefreshStep ==
  \A a \in JoinRequests :
    (last'.op = "join" /\ last'.err = "" /\ Reconnects(a)
       /\ JoinRoom(a[1], a[2], a[3], a[4])) =>
      /\ ReconnectKeeps(a)
      /\ Joined'.playerName = trim(a[3])
      /\ roomObjs'[RoomAt(a[2])].playerData[Presented(a)].username = trim(a[3])

C8_ReconnectRefreshesName == [][C8_RefreshStep]_vars

\* An accepted room:join has returned the stored card of the first profile of
\* a room of two profiles, minted by two earlier joins.
C8_Witness ==
  /\ last.op = "join" /\ last.err = ""
  /\ Joined.playerId = "p1"
  /\ Joined.bingoCard = OneRowCard
  /\ Len(roomObjs[last.room].playerData) = MaxPlayers
  /\ minted = MaxPlayers

\* A join request of a live room whose trimmed name is, ignoring case, the
\* name of a profile of the room other than the one of the presented id.
Clashes(a) ==
  /\ RoomAt(a[2]) # 0
  /\ Len(trim(a[3])) > 0
  /\ \E k \in 1..Len(roomObjs[RoomAt(a[2])].playerData) :
       /\ roomObjs[RoomAt(a[2])].playerData[k].id # a[4]
       /\ toLowerCase(roomObjs[RoomAt(a[2])].playerData[k].username)
            = toLowerCase(trim(a[3]))

\* C9, for every room:join whose name clashes: the request fails with
\* NameTaken, an error is sent to the requester and nothing else is emitted,
\* and no profile, connection set, user record or socket room changes.
C9_NameTakenStep ==
  \A a \in JoinRequests :
    (last'.op = "join" /\ Clashes(a) /\ JoinRoom(a[1], a[2], a[3], a[4])) =>
      /\ last'.err = "NameTaken"
      /\ roomObjs' = roomObjs
      /\ users' = users
      /\ ioRooms' = ioRooms
      /\ minted' = minted
      /\ Len(emitted') = 1
      /\ emitted'[1].type = "error"
      /\ emitted'[1].to = ToSocket(a[1])

C9_DuplicateNameRejected == [][C9_NameTakenStep]_vars

\* A room:join was rejected with NameTaken in a room of two profiles.
C9_Witness ==
  /\ last.op = "join" /\ last.err = "NameTaken"
  /\ RoomAt(User(last.sock).roomId) # 0
  /\ Len(roomObjs[RoomAt(User(last.sock).roomId)].playerData) = MaxPlayers

\* C10, in every state: the names of the profiles of a room are pairwise
\* distinct ignoring case.
C10_NamesDistinct ==
  \A r \in 1..Len(roomObjs) :
    \A j, k \in 1..Len(roomObjs[r].playerData) :
      j # k => toLowerCase(roomObjs[r].playerData[j].username)
                 # toLowerCase(roomObjs[r].playerData[k].username)

\* Room object r is the room the registry holds under its code.
Live(r) == r \in 1..Len(roomObjs) /\ rooms[roomObjs[r].roomId] = r

\* The requests room:create receives in the game.
CreateRequests == EnvGame.create \X (Codes \cup {""})

\* C11, for every disconnect of the connection in the admin slot of a live
\* room: the room stays in the registry and changes in nothing but the admin
\* slot, which becomes empty, and its connections, which lose this one.
C11_DisconnectStep ==
  \A s \in Sockets, r \in 1..Len(roomObjs) :
    (last'.op = "disconnect" /\ last'.sock = s /\ Live(r)
       /\ roomObjs[r].adminSocketId = s) =>
      /\ rooms' = rooms
      /\ roomObjs'[r] = [roomObjs[r] EXCEPT !.adminSocketId = NoSocket,
                                            !.players = @ \ {s}]

\* C11, for every room:create by an admin that names a live room with an
\* empty admin slot: no room is created, the slot is bound to the requester
\* and the answer is reconnected = true with the room's drawn numbers.
C11_RebindStep ==
  \A a \in CreateRequests :
    (/\ HasUser(a[1][1]) /\ User(a[1][1]).isAdmin
     /\ RoomAt(a[1][2]) # 0
     /\ roomObjs[RoomAt(a[1][2])].adminSocketId = NoSocket
     /\ CreateRoom(a[1][1], a[1][2], a[2])) =>
      /\ rooms' = rooms
      /\ Len(roomObjs') = Len(roomObjs)
      /\ roomObjs'[RoomAt(a[1][2])] =
           [roomObjs[RoomAt(a[1][2])] EXCEPT !.adminSocketId = a[1][1],
                                             !.players = @ \cup {a[1][1]}]
      /\ emitted'[1].type = "room:created"
      /\ emitted'[1].to = ToSocket(a[1][1])
      /\ emitted'[1].payload.roomId = a[1][2]
      /\ emitted'[1].payload.reconnected
      /\ emitted'[1].payload.drawnNumbers
           = roomObjs[RoomAt(a[1][2])].drawnNumbers

C11_AdminRebind == [][C11_DisconnectStep /\ C11_RebindStep]_vars

\* The last step broadcast room:closed to the room of this code.
ClosedSent(roomId) ==
  \E e \in 1..Len(emitted) :
    emitted[e].type = "room:closed" /\ emitted[e].to = ToRoom(roomId)

\* C12, for every room:close by the connection in the admin slot of the
\* room: the room leaves the registry and room:closed is broadcast to it.
C12_AdminCloseStep ==
  \A a \in CloseRequests :
    (/\ RoomAt(a[2]) # 0
     /\ roomObjs[RoomAt(a[2])].adminSocketId = a[1]
     /\ CloseRoom(a[1], a[2], a[3])) =>
      (rooms'[a[2]] = 0 /\ ClosedSent(a[2])')

C12_AdminCloses == [][C12_AdminCloseStep]_vars

\* C13, for every room:close by a connection that is not in the admin slot
\* of the room: a room that is over leaves the registry and room:closed is
\* broadcast; a room that is not over stays as it is, the history too, and
\* no room:closed is sent.
C13_OtherCloseStep ==
  \A a \in CloseRequests :
    (/\ RoomAt(a[2]) # 0
     /\ roomObjs[RoomAt(a[2])].adminSocketId # a[1]
     /\ CloseRoom(a[1], a[2], a[3])) =>
      IF roomObjs[RoomAt(a[2])].gameOver
      THEN rooms'[a[2]] = 0 /\ ClosedSent(a[2])'
      ELSE /\ rooms' = rooms
           /\ roomObjs' = roomObjs
           /\ roomHistory' = roomHistory
           /\ ~ClosedSent(a[2])'

C13_OthersCloseIffOver == [][C13_OtherCloseStep]_vars

\* A player, not in the admin slot, has closed a room that was over.
C13_Witness ==
  /\ last.op = "close" /\ last.err = ""
  /\ roomObjs[last.room].gameOver
  /\ roomObjs[last.room].adminSocketId # last.sock
  /\ HasUser(last.sock) /\ ~User(last.sock).isAdmin
  /\ ~Live(last.room)

\* The newest record of the history describes this room as it is closed.
Archived(room, history) ==
  /\ Len(history) > 0
  /\ LET rec == history[Len(history)]
     IN /\ rec.roomId = room.roomId
        /\ rec.winner = room.winnerInfo[1].playerName
        /\ rec.winnerRowNumber = room.winnerInfo[1].rowNumber
        /\ rec.winnerNumbers = room.winnerInfo[1].numbers
        /\ rec.totalPlayers = Len(room.playerData)
        /\ rec.totalNumbersDrawn = Cardinality(room.drawnNumbers)

\* C14, for every step: a room:close that removes a room appends one record
\* describing the room when the room is over with a winner record, the older
\* records being kept or evicted, and leaves the history alone otherwise;
\* the history changes in no other step, and a room object that has left the
\* registry never returns to it.
C14_ArchiveStep ==
  /\ \A a \in CloseRequests :
       (RoomAt(a[2]) # 0 /\ CloseRoom(a[1], a[2], a[3]) /\ last'.err = "") =>
         LET room == roomObjs[RoomAt(a[2])]
         IN /\ rooms'[a[2]] = 0
            /\ IF room.gameOver /\ room.winnerInfo # <<>>
               THEN /\ Archived(room, roomHistory')
                    /\ Len(roomHistory') <= Len(roomHistory) + 1
                    /\ \A k \in 1..(Len(roomHistory') - 1) :
                         \E j \in 1..Len(roomHistory) :
                           roomHistory'[k] = roomHistory[j]
               ELSE roomHistory' = roomHistory
  /\ roomHistory' # roomHistory =>
       (last'.op = "close" /\ last'.err = "" /\ Live(last'.room))
  /\ \A r \in 1..Len(roomObjs) : ~Live(r) => ~Live(r)'

C14_ArchivedOnClose == [][C14_ArchiveStep]_vars

\* A room that was over with a winner has been closed and is the one record
\* of the history.
C14_Witness ==
  /\ last.op = "close" /\ last.err = ""
  /\ ~Live(last.room)
  /\ roomObjs[last.room].winnerInfo # <<>>
  /\ Len(roomHistory) = 1
  /\ Archived(roomObjs[last.room], roomHistory)

\* The number of records of a history that were closed at time t.
ClosedAt(history, t) ==
  Cardinality({k \in 1..Len(history) : history[k].closedAt = t})

\* C15, for every append: the history holds at most MAX_HISTORY_SIZE records
\* afterwards, all of them records it held or the new one; nothing is
\* evicted from a history within the cap unless the file is too big; and if
\* a record is kept, every record closed later is kept too.
C15_AppendStep ==
  last'.op = "archive" =>
    LET grown == Append(roomHistory, HistoryRecord(clock))
    IN /\ Len(roomHistory') <= MAX_HISTORY_SIZE
       /\ \A t \in 0..MaxTime :
            ClosedAt(roomHistory', t) <= ClosedAt(grown, t)
       /\ (Len(grown) > MAX_HISTORY_SIZE) =>
            Len(roomHistory') = MAX_HISTORY_SIZE
       /\ (Len(grown) <= MAX_HISTORY_SIZE /\ Len(roomHistory') = Len(grown)) =>
            roomHistory' = grown
       /\ \A t1, t2 \in 0..MaxTime :
            (t1 < t2 /\ ClosedAt(roomHistory', t1) > 0) =>
              ClosedAt(roomHistory', t2) = ClosedAt(grown, t2)

C15_HistoryCap == [][C15_AppendStep]_vars

\* Three rooms were archived at times 0 < 1 < 2 on an empty history: the
\* records of times 1 and 2 remain.
C15_Witness ==
  /\ last.op = "archive"
  /\ clock = 3
  /\ Len(roomHistory) = MAX_HISTORY_SIZE
  /\ roomHistory[1].closedAt = 1
  /\ roomHistory[2].closedAt = 2

\* The profiles with the connection field of player pid cleared.
Unplugged(playerData, pid) ==
  [k \in 1..Len(playerData) |->
     IF playerData[k].id = pid
     THEN [playerData[k] EXCEPT !.socketId = NoSocket]
     ELSE playerData[k]]

\* C16, for every disconnect of a connection bound to a player id: the room
\* it is bound to, unless it sits in its admin slot, changes in that the
\* connection leaves the room's connections and the connection field of the
\* player's profile is cleared, and in nothing else; every other room that
\* does not have it in the admin slot is unchanged; the registry and the
\* history are unchanged.
C16_DisconnectStep ==
  \A s \in Sockets :
    (last'.op = "disconnect" /\ last'.sock = s /\ HasUser(s)
       /\ User(s).playerId # "") =>
      /\ rooms' = rooms
      /\ roomHistory' = roomHistory
      /\ Len(roomObjs') = Len(roomObjs)
      /\ \A r \in 1..Len(roomObjs) :
           roomObjs[r].adminSocketId # s =>
             roomObjs'[r] =
               IF Live(r) /\ roomObjs[r].roomId = User(s).roomId
               THEN [roomObjs[r] EXCEPT
                       !.players = @ \ {s},
                       !.playerData = Unplugged(@, User(s).playerId)]
               ELSE roomObjs[r]

\* C16, for every step: no profile leaves a room, and a disconnect changes
\* no name, no card, no drawn number, no notified row, and neither over nor
\* the winner of any room.
C16_KeepStep ==
  \A r \in 1..Len(roomObjs) :
    /\ Len(roomObjs'[r].playerData) >= Len(roomObjs[r].playerData)
    /\ \A k \in 1..Len(roomObjs[r].playerData) :
         roomObjs'[r].playerData[k].id = roomObjs[r].playerData[k].id
    /\ last'.op = "disconnect" =>
         /\ Len(roomObjs'[r].playerData) = Len(roomObjs[r].playerData)
         /\ \A k \in 1..Len(roomObjs[r].playerData) :
              /\ roomObjs'[r].playerData[k].username
                   = roomObjs[r].playerData[k].username
              /\ roomObjs'[r].playerData[k].bingoCard
                   = roomObjs[r].playerData[k].bingoCard
         /\ roomObjs'[r].drawnNumbers = roomObjs[r].drawnNumbers
         /\ roomObjs'[r].completedRows = roomObjs[r].completedRows
         /\ roomObjs'[r].gameOver = roomObjs[r].gameOver
         /\ roomObjs'[r].winner = roomObjs[r].winner
         /\ roomObjs'[r].winnerInfo = roomObjs[r].winnerInfo

C16_DisconnectKeepsData == [][C16_DisconnectStep /\ C16_KeepStep]_vars

\* A player has disconnected from a live room with drawn numbers, in which
\* its profile keeps its card and has no connection.
C16_Witness ==
  /\ last.op = "disconnect"
  /\ Live(last.room)
  /\ roomObjs[last.room].adminSocketId \notin {NoSocket, last.sock}
  /\ last.sock \notin roomObjs[last.room].players
  /\ roomObjs[last.room].drawnNumbers # {}
  /\ Len(roomObjs[last.room].playerData) = MaxPlayers
  /\ \E k \in 1..Len(roomObjs[last.room].playerData) :
       /\ roomObjs[last.room].playerData[k].bingoCard # NoCard
       /\ roomObjs[last.room].playerData[k].socketId = NoSocket

\* The codes of the rooms of the registry.
LiveCodes == {c \in Codes : rooms[c] # 0}

\* C17, for every room:create: a requester that is not an admin gets
\* NotAuthorized and nothing changes; a request of an admin naming a live
\* room with an empty admin slot binds the slot and creates no room; any
\* other request of an admin adds one room, empty and not over, under a code
\* no live room has, and changes no room that exists.
C17_CreateStep ==
  \A a \in CreateProbes, n \in Codes \cup {""} :
    CreateRoom(a[1], a[2], n) =>
      IF ~HasUser(a[1]) \/ ~User(a[1]).isAdmin
      THEN /\ last'.err = "NotAuthorized"
           /\ emitted' = ErrorTo(a[1], "NotAuthorized")
           /\ rooms' = rooms /\ roomObjs' = roomObjs /\ users' = users
      ELSE IF RoomAt(a[2]) # 0
              /\ roomObjs[RoomAt(a[2])].adminSocketId = NoSocket
      THEN /\ rooms' = rooms
           /\ Len(roomObjs') = Len(roomObjs)
           /\ \A r \in 1..Len(roomObjs) :
                roomObjs'[r] =
                  IF r = RoomAt(a[2])
                  THEN [roomObjs[r] EXCEPT !.adminSocketId = a[1],
                                           !.players = @ \cup {a[1]}]
                  ELSE roomObjs[r]
      ELSE /\ Len(roomObjs') = Len(roomObjs) + 1
           /\ \A r \in 1..Len(roomObjs) : roomObjs'[r] = roomObjs[r]
           /\ LET new == roomObjs'[Len(roomObjs) + 1]
              IN /\ new.roomId \in Codes \ LiveCodes
                 /\ new.adminSocketId = a[1]
                 /\ new.players = {a[1]}
                 /\ new.drawnNumbers = {}
                 /\ new.playerData = <<>>
                 /\ new.completedRows = {}
                 /\ ~new.gameOver
                 /\ new.winner = <<>> /\ new.winnerInfo = <<>>
                 /\ rooms' = [rooms EXCEPT ![new.roomId] = Len(roomObjs) + 1]
                 /\ emitted'[1].type = "room:created"
                 /\ emitted'[1].payload.roomId = new.roomId
                 /\ ~emitted'[1].payload.reconnected

C17_CreateNeverTakesOver == [][C17_CreateStep]_vars

\* An admin has created a second room while the first, with drawn numbers
\* and a profile, is live and has another admin in its slot.
C17_Witness ==
  /\ last.op = "create" /\ last.err = "" /\ last.room = 2
  /\ Live(1) /\ Live(2)
  /\ roomObjs[1].adminSocketId \notin {NoSocket, last.sock}
  /\ roomObjs[1].drawnNumbers # {}
  /\ Len(roomObjs[1].playerData) > 0
  /\ roomObjs[2].adminSocketId = last.sock

\* The connection is not a member of the room the request names, or there
\* is no such room.
NotMember(s, roomId) ==
  \/ ~HasUser(s)
  \/ RoomAt(roomId) = 0
  \/ s \notin roomObjs[RoomAt(roomId)].players

\* C18, for every player:bingoCard: from a connection that is not a member
\* of the named room it fails with InvalidRequest and changes no room; from
\* a member bound to a player id it leaves the presented card on the profile
\* of that player id, the card a later room:join with that id returns.
C18_SubmitStep ==
  \A a \in SubmitRequests :
    SubmitCard(a[1], a[2], a[3], a[4]) =>
      IF NotMember(a[1], a[2])
      THEN /\ last'.err = "InvalidRequest"
           /\ emitted' = ErrorTo(a[1], "InvalidRequest")
           /\ roomObjs' = roomObjs
      ELSE User(a[1]).playerId # "" =>
             LET playerData == roomObjs'[RoomAt(a[2])].playerData
                 k == PlayerIndex(playerData, User(a[1]).playerId)
             IN k # 0 /\ playerData[k].bingoCard = a[3]

C18_CardStored == [][C18_SubmitStep]_vars

\* C19, for every win check that fires when the room its draw was made in
\* is no longer in the registry: it emits nothing and leaves the room
\* object (gameOver, winner, winnerInfo, completedRows) as it was.
C19_ClosedCheckStep ==
  (WinCheck /\ ~Live(Head(timers).room)) =>
     /\ emitted' = <<>>
     /\ roomObjs' = roomObjs

C19_ClosedCheckNoOp == [][C19_ClosedCheckStep]_vars

\* C20, scheduling: an accepted draw adds one pending check of its room
\* behind those pending, a firing check removes the oldest one only, and no
\* other step adds or removes a pending check.
C20_ScheduleStep ==
  /\ (last'.op = "draw" /\ last'.err = "") =>
        /\ Len(timers') = Len(timers) + 1
        /\ timers'[Len(timers')].room = last'.room
        /\ \A j \in 1..Len(timers) : timers'[j].room = timers[j].room
  /\ last'.op = "wincheck" =>
        /\ Len(timers') = Len(timers) - 1
        /\ \A j \in 1..Len(timers') : timers'[j].room = timers[j + 1].room
  /\ ~(last'.op = "draw" /\ last'.err = "") /\ last'.op # "wincheck" =>
        /\ Len(timers') = Len(timers)
        /\ \A j \in 1..Len(timers) : timers'[j].room = timers[j].room

\* C20, firing: a check reports exactly the rows that are complete against
\* the drawnNumbers and cards of its room at the moment it fires (numbers
\* drawn after the draw that scheduled it included) and were not notified
\* before, and leaves every complete row notified; so of two checks pending
\* together, the first reports a row that needs both their numbers and the
\* second does not report it again.
C20_FireStep ==
  \A r \in 1..Len(roomObjs), pid \in PlayerIds, i \in 1..MaxCardRows :
    (WinCheck /\ Head(timers).room = r) =>
      /\ TimesReported(r, pid, i)' =
           TimesReported(r, pid, i) +
             (IF RowComplete(r, pid, i)
                   /\ RowKey(pid, i - 1) \notin roomObjs[r].completedRows
              THEN 1 ELSE 0)
      /\ RowComplete(r, pid, i) =>
           RowKey(pid, i - 1) \in roomObjs'[r].completedRows

\* C20: win checks read live state: every accepted draw schedules its own
\* check, none is cancelled or coalesced, and a check evaluates the rows
\* against the room as it is when the check fires.
C20_LiveChecks == [][C20_ScheduleStep /\ C20_FireStep]_vars

\* Both numbers of the pool were drawn before any check fired; the first
\* check reported a row that needs both, and the second check, the last
\* step, reported nothing.
C20_Witness ==
  /\ last.op = "wincheck"
  /\ Len(emitted) = 0
  /\ Len(timers) = 0
  /\ roomObjs[last.room].drawnNumbers = {1, 2}
  /\ \E k \in 1..Len(roomObjs[last.room].playerData) :
       /\ roomObjs[last.room].playerData[k].bingoCard = TwoRowCard
       /\ TimesReported(last.room, roomObjs[last.room].playerData[k].id, 2) = 1

\* The winner record without the card snapshot.
WinnerOf(room) ==
  [playerId |-> room.winnerInfo[1].playerId,
   playerName |-> room.winnerInfo[1].playerName,
   rowNumber |-> room.winnerInfo[1].rowNumber,
   numbers |-> room.winnerInfo[1].numbers]

\* C21, in every state: a room is over iff its winner record is set.
C21_OverIffWinner ==
  \A r \in 1..Len(roomObjs) :
    /\ roomObjs[r].gameOver <=> roomObjs[r].winnerInfo # <<>>
    /\ roomObjs[r].gameOver <=> roomObjs[r].winner # <<>>

\* C21, in every step: a room becomes over only in a win check that
\* collected a completion, the winner then being the first completion the
\* check collected; and a winner record that is set keeps its player id,
\* name, row number and numbers.
C21_WinnerStep ==
  \A r \in 1..Len(roomObjs) :
    /\ (~roomObjs[r].gameOver /\ roomObjs'[r].gameOver) =>
         /\ last'.op = "wincheck" /\ last'.room = r
         /\ Len(rowEvents'[r]) > Len(rowEvents[r])
         /\ LET first == rowEvents'[r][Len(rowEvents[r]) + 1]
            IN /\ WinnerOf(roomObjs'[r]).playerId = first.playerId
               /\ WinnerOf(roomObjs'[r]).rowNumber = first.rowNumber
               /\ WinnerOf(roomObjs'[r]).playerName = emitted'[1].payload.playerName
               /\ WinnerOf(roomObjs'[r]).numbers = emitted'[1].payload.numbers
               /\ roomObjs'[r].winner = <<emitted'[1].payload.playerName>>
    /\ roomObjs[r].gameOver =>
         /\ roomObjs'[r].gameOver
         /\ WinnerOf(roomObjs'[r]) = WinnerOf(roomObjs[r])
         /\ roomObjs'[r].winner = roomObjs[r].winner

\* C21: the winner is set once, together with over.
C21_WinnerSetOnce == []C21_OverIffWinner /\ [][C21_WinnerStep]_vars

\* The winner has come back under another name after the room was over, the
\* winner record keeping the name the row was completed under.
C21_Witness ==
  /\ last.op = "join" /\ last.err = ""
  /\ roomObjs[last.room].gameOver
  /\ LET playerData == roomObjs[last.room].playerData
         k == PlayerIndex(playerData, WinnerOf(roomObjs[last.room]).playerId)
     IN /\ k # 0
        /\ playerData[k].username # WinnerOf(roomObjs[last.room]).playerName
        /\ Len(playerData) > 1

\* The connection is open.
Connected(s) == s \in Sockets /\ conn[s] = "open"

\* C22, in every state: the admin slot of a room of the registry is empty or
\* holds a connected admin connection, and every connection in the room's
\* players is connected.
C22_NoDanglingConnection ==
  \A r \in 1..Len(roomObjs) :
    Live(r) =>
      /\ roomObjs[r].adminSocketId # NoSocket =>
           /\ Connected(roomObjs[r].adminSocketId)
           /\ HasUser(roomObjs[r].adminSocketId)
           /\ User(roomObjs[r].adminSocketId).isAdmin
      /\ \A s \in roomObjs[r].players : Connected(s)

\* The connection is connected and its user record names this player id in
\* the room of this code.
BoundTo(s, roomId, pid) ==
  /\ Connected(s)
  /\ HasUser(s)
  /\ User(s).roomId = roomId
  /\ User(s).playerId = pid

\* C23, in every state: the connection field of a profile of a room of the
\* registry is empty or names a connected connection bound to the profile's
\* player id, and it is empty only if no connected connection is bound to
\* that id.
C23_ConnectionTracked ==
  \A r \in 1..Len(roomObjs) :
    Live(r) =>
      \A k \in 1..Len(roomObjs[r].playerData) :
        LET p == roomObjs[r].playerData[k]
        IN IF p.socketId = NoSocket
           THEN \A s \in Sockets : ~BoundTo(s, roomObjs[r].roomId, p.id)
           ELSE BoundTo(p.socketId, roomObjs[r].roomId, p.id)

\* C24, for every win check: each game:rowCompleted it emits is broadcast to
\* the room the check's draw was made in.
C24_CheckStep ==
  WinCheck =>
    \A e \in 1..Len(emitted') :
      emitted'[e].type = "game:rowCompleted" =>
        emitted'[e].to = ToRoom(roomObjs[Head(timers).room].roomId)

C24_RowCompletedStaysInRoom == [][C24_CheckStep]_vars

\* The profiles with the card of player pid replaced.
WithCard(playerData, pid, card) ==
  [k \in 1..Len(playerData) |->
     IF playerData[k].id = pid
     THEN [playerData[k] EXCEPT !.bingoCard = card]
     ELSE playerData[k]]

\* C25, for every player:bingoCard of a member of the named room that is
\* bound to a player id: the room changes in the card of the profile of that
\* id and in nothing else, no profile is added, and no other room changes.
C25_SubmitStep ==
  \A a \in SubmitRequests :
    (/\ ~NotMember(a[1], a[2])
     /\ User(a[1]).playerId # ""
     /\ SubmitCard(a[1], a[2], a[3], a[4])) =>
      /\ rooms' = rooms
      /\ roomObjs' =
           [roomObjs EXCEPT ![RoomAt(a[2])].playerData =
              WithCard(@, User(a[1]).playerId, a[3])]

C25_OwnProfileOnly == [][C25_SubmitStep]_vars

=============================================================================
